---- MODULE Spec2Model ----
(***************************************************************************)
(* A model of publish.js, the JSDoc template entry point of minami.        *)
(*                                                                         *)
(* publish(taffyData, opts, tutorials) is one synchronous pass: it prunes  *)
(* and sorts the doclets, collects and shortens source paths, copies       *)
(* static files, decorates every doclet in place, and then renders pages.  *)
(* The model follows the statements of publish in order (the variable pc   *)
(* is the position in the function body), with one action per block.       *)
(*                                                                         *)
(* A JavaScript string is a sequence of characters, each character a       *)
(* one-character TLA+ string; a fixed piece of markup that the code only   *)
(* ever emits whole (such as "<span class=\"signature\">") is one element. *)
(***************************************************************************)
EXTENDS Integers, Sequences, FiniteSets, TLC

\* ------------------------------------------------------------ bounds ----
\* The longest record collection handed to publish.
MaxDoclets == 3
\* The most tutorial nodes below the root.
MaxTutorials == 3

\* ----------------------------------------------------------- strings ----
\* The value of a property that is not set.
Undefined == <<"undefined">>

\* JavaScript truthiness of a string-valued property.
Truthy(s) == s # Undefined /\ s # <<>>

\* pat occurs in s at (1-based) position i.
OccursAt(s, pat, i) ==
    /\ i >= 1
    /\ i + Len(pat) - 1 <= Len(s)
    /\ \A k \in 1..Len(pat) : s[i + k - 1] = pat[k]

\* String.prototype.indexOf, 1-based, 0 when pat does not occur.
IndexOf(s, pat) ==
    LET hits == {i \in 1..(Len(s) + 1) : OccursAt(s, pat, i)}
    IN  IF hits = {} THEN 0 ELSE CHOOSE i \in hits : \A j \in hits : i <= j

\* String.prototype.replace with a string pattern: the first occurrence only.
StringReplace(s, pat, rep) ==
    LET i == IndexOf(s, pat)
    IN  IF i = 0 THEN s
        ELSE SubSeq(s, 1, i - 1) \o rep \o SubSeq(s, i + Len(pat), Len(s))

RECURSIVE Flatten(_)
\* The concatenation of a sequence of strings.
Flatten(ss) == IF ss = <<>> THEN <<>> ELSE Head(ss) \o Flatten(Tail(ss))

RECURSIVE Join(_, _)
\* Array.prototype.join.
Join(ss, sepr) ==
    IF ss = <<>> THEN <<>>
    ELSE IF Len(ss) = 1 THEN Head(ss)
    ELSE Head(ss) \o sepr \o Join(Tail(ss), sepr)

\* s.replace(/\\/g, '/'): every backslash becomes a forward slash.
ForwardSlashes(s) == [i \in 1..Len(s) |-> IF s[i] = "\\" THEN "/" ELSE s[i]]

\* The lower-case form of one character.
LowerChar(c) ==
    CASE c = "F" -> "f" [] c = "U" -> "u" [] c = "N" -> "n" [] c = "C" -> "c"
      [] c = "T" -> "t" [] c = "I" -> "i" [] c = "O" -> "o" [] c = "S" -> "s"
      [] OTHER -> c

\* String.prototype.toLowerCase.
ToLowerCase(s) == [i \in 1..Len(s) |-> LowerChar(s[i])]

\* helper.htmlsafe: & and < are escaped.
Htmlsafe(s) ==
    Flatten([i \in 1..Len(s) |->
        IF s[i] = "&" THEN <<"&", "a", "m", "p", ";">>
        ELSE IF s[i] = "<" THEN <<"&", "l", "t", ";">>
        ELSE <<s[i]>>])

\* Array.prototype.filter, keeping the order.
RECURSIVE SelectSeqBy(_, _)
SelectSeqBy(s, keep) ==
    IF s = <<>> THEN <<>>
    ELSE (IF Head(s) \in keep THEN <<Head(s)>> ELSE <<>>) \o SelectSeqBy(Tail(s), keep)

Range(s) == {s[i] : i \in 1..Len(s)}

\* ----------------------------------------------------------- doclets ----
\* The fields of a doclet that publish reads or writes.  A property that is
\* an object or an array comes with a has-flag saying whether it is set.
\*   nullable is "true", "false" or "unset"; examples hold one record per
\*   example, formatted = FALSE while it still is the host's string (in code).
NewDoclet(uid, kind, longname, name) ==
    [ uid |-> uid, kind |-> kind, longname |-> longname, name |-> name,
      description |-> Undefined, memberof |-> Undefined, nullable |-> "unset",
      undocumented |-> FALSE,
      hasType |-> FALSE, typeNames |-> <<>>,
      hasParams |-> FALSE, params |-> <<>>,
      hasReturns |-> FALSE, returns |-> <<>>,
      hasMeta |-> FALSE, metaPath |-> Undefined, metaFilename |-> Undefined,
      shortpath |-> Undefined,
      hasExamples |-> FALSE, examples |-> <<>>,
      hasSee |-> FALSE, see |-> <<>>,
      attribs |-> Undefined, id |-> Undefined, signature |-> Undefined,
      hasAncestors |-> FALSE, ancestors |-> <<>>,
      hasModules |-> FALSE, modules |-> <<>> ]

\* One documented parameter.
Param(name, optional, nullable, variable) ==
    [name |-> name, optional |-> optional, nullable |-> nullable, variable |-> variable]

\* One @returns item.
ReturnItem(hasType, typeNames, nullable) ==
    [hasType |-> hasType, typeNames |-> typeNames, nullable |-> nullable]

\* An example as the host supplies it: a string.
RawExample(s) == [formatted |-> FALSE, caption |-> <<>>, code |-> s]

\* --------------------------------------------- the link registry (host) ----
\* templateHelper keeps longnameToUrl (longname -> url, in insertion order)
\* and the table of file names it has handed out.  A registry is
\* [keys: the longnames in insertion order, url: longname -> url, files: the
\* lower-cased file names taken].
EmptyRegistry == [keys |-> <<>>, url |-> <<>>, files |-> {}]

HasLink(reg, longname) == \E i \in 1..Len(reg.keys) : reg.keys[i] = longname

\* helper.longnameToUrl[longname]
UrlOf(reg, longname) ==
    IF HasLink(reg, longname)
    THEN reg.url[CHOOSE i \in 1..Len(reg.keys) : reg.keys[i] = longname]
    ELSE Undefined

\* helper.registerLink(longname, url)
RegisterLink(reg, longname, url) ==
    IF HasLink(reg, longname)
    THEN LET i == CHOOSE j \in 1..Len(reg.keys) : reg.keys[j] = longname
         IN  [reg EXCEPT !.url[i] = url]
    ELSE [reg EXCEPT !.keys = Append(@, longname), !.url = Append(@, url)]

ModulePrefix == <<"m", "o", "d", "u", "l", "e", ":">>
HtmlExt == <<".html">>

\* The characters getUniqueFilename replaces, after the namespace prefix
\* "module:" has become "module-".
SafeChar(c) ==
    CASE c \in {"\\", "/", "?", "*", ":", "|", "'", "\"", "<", ">", "#"} -> "_"
      [] c = "~" -> "-"
      [] OTHER -> c

Basename(str) ==
    LET pre  == IF OccursAt(str, ModulePrefix, 1)
                THEN <<"m", "o", "d", "u", "l", "e", "-">> ELSE <<>>
        rest == IF pre = <<>> THEN str ELSE SubSeq(str, Len(ModulePrefix) + 1, Len(str))
        safe == pre \o [i \in 1..Len(rest) |-> SafeChar(rest[i])]
        cut  == IF safe # <<>> /\ Head(safe) \in {".", "-"} THEN Tail(safe) ELSE safe
    IN  IF cut = <<>> THEN <<"_">> ELSE cut

RECURSIVE MakeUnique(_, _)
\* makeUniqueFilename: underscores are appended until the name is free.
MakeUnique(files, filename) ==
    LET f == IF filename = <<>> \/ Head(filename) = "_" THEN <<"-">> \o filename ELSE filename
    IN  IF ToLowerCase(f) \in files THEN MakeUnique(files, f \o <<"_">>) ELSE f

\* helper.getUniqueFilename(str): the name handed out, and the registry after.
UniqueFilename(reg, str) == MakeUnique(reg.files, Basename(str)) \o HtmlExt
ClaimFilename(reg, str) ==
    [reg EXCEPT !.files = @ \cup {ToLowerCase(MakeUnique(reg.files, Basename(str)))}]

\* templateHelper's getFilename(longname): the url on record, or a fresh one
\* that is registered.
FilenameOf(reg, longname) ==
    IF HasLink(reg, longname) THEN UrlOf(reg, longname) ELSE UniqueFilename(reg, longname)
AfterFilenameOf(reg, longname) ==
    IF HasLink(reg, longname) THEN reg
    ELSE RegisterLink(ClaimFilename(reg, longname), longname, UniqueFilename(reg, longname))

Containers == {"class", "module", "external", "namespace", "mixin", "interface"}
GlobalName == <<"g", "l", "o", "b", "a", "l">>

\* templateHelper's isModuleExports(doclet)
IsModuleExports(d) ==
    d.longname = d.name /\ OccursAt(d.longname, ModulePrefix, 1) /\ d.kind # "module"

\* Where helper.createLink(doclet) looks for the file of the doclet.
LinkHome(d) ==
    IF d.kind \in Containers \/ IsModuleExports(d) THEN d.longname
    ELSE IF d.memberof # Undefined THEN d.memberof
    ELSE IF OccursAt(d.longname, ModulePrefix, 1) THEN d.longname
    ELSE GlobalName

\* helper.createLink(doclet): the url, and the registry after the call.
CreateLink(reg, d) ==
    LET file == FilenameOf(reg, LinkHome(d))
        own  == d.kind \in Containers \/ IsModuleExports(d)
        frag == IF ~own /\ (d.name # d.longname \/ d.memberof = Undefined)
                THEN d.name ELSE <<>>
    IN  IF frag = <<>> THEN file ELSE file \o <<"#">> \o frag
AfterCreateLink(reg, d) == AfterFilenameOf(reg, LinkHome(d))

\* helper.linkto(longname, linkText): an anchor when the longname has a url.
Linkto(reg, longname, text) ==
    IF HasLink(reg, longname)
    THEN <<"<a href=\"">> \o UrlOf(reg, longname) \o <<"\">">> \o text \o <<"</a>">>
    ELSE text

\* helper.getAttribs, of a doclet or of a @returns item (kind "" for an item).
GetAttribs(kind, nullable) ==
    (IF kind = "constant" THEN << <<"c", "o", "n", "s", "t", "a", "n", "t">> >> ELSE <<>>)
    \o (IF nullable = "true" THEN << <<"n", "u", "l", "l", "a", "b", "l", "e">> >>
        ELSE IF nullable = "false" THEN << <<"n", "o", "n", "-", "n", "u", "l", "l">> >>
        ELSE <<>>)

\* ------------------------------------------------ publish.js: helpers ----
sFunction == <<"f", "u", "n", "c", "t", "i", "o", "n">>

\* needsSignature comparing the type names as they are spelled.
needsSignatureCaseSensitive(doclet) ==
    IF doclet.kind = "function" \/ doclet.kind = "class" THEN TRUE
    ELSE IF doclet.kind = "typedef" /\ doclet.hasType /\ Len(doclet.typeNames) > 0
    THEN \E i \in 1..Len(doclet.typeNames) : doclet.typeNames[i] = sFunction
    ELSE FALSE

\* needsSignature(doclet)
needsSignature(doclet) ==
    IF doclet.kind = "function" \/ doclet.kind = "class" THEN TRUE
    ELSE IF doclet.kind = "typedef" /\ doclet.hasType /\ Len(doclet.typeNames) > 0
    THEN \E i \in 1..Len(doclet.typeNames) : ToLowerCase(doclet.typeNames[i]) = sFunction
    ELSE FALSE

\* getSignatureAttributes(item)
getSignatureAttributes(item) ==
    (IF item.optional THEN << <<"o", "p", "t">> >> ELSE <<>>)
    \o (IF item.nullable = "true" THEN << <<"n", "u", "l", "l", "a", "b", "l", "e">> >>
        ELSE IF item.nullable = "false" THEN << <<"n", "o", "n", "-", "n", "u", "l", "l">> >>
        ELSE <<>>)

\* updateItemName(item)
updateItemName(item) ==
    LET attributes == getSignatureAttributes(item)
        name0 == IF Truthy(item.name) THEN item.name ELSE <<>>
        name1 == IF item.variable THEN <<"&hellip;">> \o name0 ELSE name0
        isOpt == \E i \in 1..Len(attributes) : attributes[i] = <<"o", "p", "t">>
        name2 == IF isOpt
                 THEN <<"<span class=\"optional-param\">[">> \o name1 \o <<"]</span>">>
                 ELSE name1
        rest  == SelectSeqBy(attributes, Range(attributes) \ {<<"o", "p", "t">>})
    IN  IF rest # <<>>
        THEN name2 \o <<"<span class=\"signature-attributes\">">>
                   \o Join(rest, <<",", " ">>) \o <<"</span>">>
        ELSE name2

\* addParamAttributes(params)
addParamAttributes(params) ==
    LET top == SelectSeqBy(params,
                 {q \in Range(params) : Truthy(q.name) /\ IndexOf(q.name, <<".">>) = 0})
    IN  [i \in 1..Len(top) |-> updateItemName(top[i])]

\* buildItemTypeStrings(item)
buildItemTypeStrings(reg, item) ==
    IF item.hasType
    THEN [i \in 1..Len(item.typeNames) |->
            Linkto(reg, item.typeNames[i], Htmlsafe(item.typeNames[i]))]
    ELSE <<>>

\* buildAttribsString(attribs)
buildAttribsString(attribs) ==
    IF Len(attribs) > 0
    THEN Htmlsafe(<<"(">> \o Join(attribs, <<",", " ">>) \o <<")", " ">>)
    ELSE <<>>

\* addNonParamAttributes(items)
addNonParamAttributes(reg, items) ==
    Flatten([i \in 1..Len(items) |-> buildItemTypeStrings(reg, items[i])])

\* f.signature || ''
SignatureOrEmpty(f) == IF Truthy(f.signature) THEN f.signature ELSE <<>>

\* addSignatureParams(f)
addSignatureParams(f) ==
    LET params == IF f.hasParams THEN addParamAttributes(f.params) ELSE <<>>
    IN  [f EXCEPT !.signature =
            SignatureOrEmpty(f) \o <<"(">> \o Join(params, <<",", " ">>) \o <<")">>]

RECURSIVE Dedup(_)
\* The attribs loop of addSignatureReturns: each attribute once, in order.
Dedup(s) ==
    IF s = <<>> THEN <<>>
    ELSE LET front == Dedup(SubSeq(s, 1, Len(s) - 1))
         IN  IF s[Len(s)] \in Range(front) THEN front ELSE Append(front, s[Len(s)])

Arrow == <<" &rarr; ">>

\* The return-type part written whenever the doclet has return docs.
returnTypesStringForAnyReturns(reg, f) ==
    LET returnTypes == IF f.hasReturns THEN addNonParamAttributes(reg, f.returns) ELSE <<>>
    IN  IF f.hasReturns
        THEN Arrow \o <<"{">> \o Join(returnTypes, <<"|">>) \o <<"}">>
        ELSE <<>>

\* The return-type part of addSignatureReturns (returnTypesString).
returnTypesString(reg, f) ==
    LET attribs == IF f.hasReturns
                   THEN Dedup(Flatten([i \in 1..Len(f.returns) |->
                                          GetAttribs("", f.returns[i].nullable)]))
                   ELSE <<>>
        attribsString == IF f.hasReturns THEN buildAttribsString(attribs) ELSE <<>>
        returnTypes == IF f.hasReturns THEN addNonParamAttributes(reg, f.returns) ELSE <<>>
    IN  IF Len(returnTypes) > 0
        THEN Arrow \o attribsString \o <<"{">> \o Join(returnTypes, <<"|">>) \o <<"}">>
        ELSE <<>>

\* addSignatureReturns(f)
addSignatureReturns(reg, f) ==
    [f EXCEPT !.signature =
        <<"<span class=\"signature\">">> \o SignatureOrEmpty(f) \o <<"</span>">>
        \o <<"<span class=\"type-signature\">">> \o returnTypesString(reg, f) \o <<"</span>">>]

\* addSignatureTypes(f)
addSignatureTypes(reg, f) ==
    LET types == IF f.hasType THEN buildItemTypeStrings(reg, f) ELSE <<>>
    IN  [f EXCEPT !.signature =
            SignatureOrEmpty(f) \o <<"<span class=\"type-signature\">">>
            \o (IF Len(types) > 0 THEN <<" ", ":">> \o Join(types, <<"|">>) ELSE <<>>)
            \o <<"</span>">>]

\* addAttribs(f)
addAttribs(f) ==
    [f EXCEPT !.attribs =
        <<"<span class=\"type-signature\">">>
        \o buildAttribsString(GetAttribs(f.kind, f.nullable)) \o <<"</span>">>]

\* ----------------------------------------------- jsdoc/path (the host) ----
RECURSIVE Split(_, _)
\* String.prototype.split(sep): the segments between separators.
Split(s, sepr) ==
    LET i == IndexOf(s, <<sepr>>)
    IN  IF i = 0 THEN <<s>>
        ELSE <<SubSeq(s, 1, i - 1)>> \o Split(SubSeq(s, i + 1, Len(s)), sepr)

\* The root of the file system, before the first separator.
Root(sepr) == IF sepr = "/" THEN <<>> ELSE <<"C", ":">>

\* The working directory of the host, env.pwd.
Pwd(sepr) == Root(sepr) \o <<sepr, "w">>

IsAbsolute(p, sepr) ==
    IF sepr = "/" THEN OccursAt(p, <<"/">>, 1) ELSE OccursAt(p, <<":", "\\">>, 2)

\* path.resolve(env.pwd, p)
Resolve(p, sepr) == IF IsAbsolute(p, sepr) THEN p ELSE Pwd(sepr) \o <<sepr>> \o p

\* path.join(dir, filename), of a directory without a trailing separator.
PathJoin(dir, filename, sepr) == dir \o <<sepr>> \o filename

\* path.extname(p) is not empty: the last segment has a dot past its start.
HasExtname(p, sepr) ==
    LET segs == Split(p, sepr)
        base == segs[Len(segs)]
    IN  \E i \in 2..Len(base) : base[i] = "."

\* path.dirname(p), of an absolute path.
Dirname(p, sepr) ==
    LET segs == Split(p, sepr)
        up   == SubSeq(segs, 1, Len(segs) - 1)
    IN  IF Len(up) <= 1 THEN Join(up, <<sepr>>) \o <<sepr>> ELSE Join(up, <<sepr>>)

RECURSIVE CommonSegments(_, _)
\* The leading segments two segment lists share (prefixReducer).
CommonSegments(a, b) ==
    IF a = <<>> \/ b = <<>> \/ Head(a) # Head(b) THEN <<>>
    ELSE <<Head(a)>> \o CommonSegments(Tail(a), Tail(b))

RECURSIVE ReducePrefix(_, _, _)
ReducePrefix(paths, acc, sepr) ==
    IF paths = <<>> THEN acc
    ELSE ReducePrefix(Tail(paths), CommonSegments(acc, Split(Resolve(Head(paths), sepr), sepr)), sepr)

\* path.commonPrefix(paths)
CommonPrefix(paths, sepr) ==
    IF Len(paths) = 0 THEN <<>>
    ELSE IF Len(paths) = 1
    THEN LET full == Resolve(paths[1], sepr)
         IN  (IF HasExtname(full, sepr) THEN Dirname(full, sepr) ELSE full) \o <<sepr>>
    ELSE LET segments == ReducePrefix(Tail(paths), Split(Resolve(paths[1], sepr), sepr), sepr)
             closed   == IF Len(segments) > 0 /\ (Len(segments) > 1 \/ segments[1] # <<>>)
                         THEN Append(segments, <<>>) ELSE segments
         IN  Join(closed, <<sepr>>)

\* ------------------------------------------ publish.js: source paths ----
\* shortenPaths that leaves the separators as they are.
shortenPathsKeepingSeparators(files, commonPrefix) ==
    [i \in 1..Len(files) |->
        [files[i] EXCEPT !.shortened = StringReplace(files[i].resolved, commonPrefix, <<>>)]]

\* shortenPaths(files, commonPrefix): files in Object.keys order.
shortenPaths(files, commonPrefix) ==
    [i \in 1..Len(files) |->
        [files[i] EXCEPT !.shortened =
            ForwardSlashes(StringReplace(files[i].resolved, commonPrefix, <<>>))]]

\* getPathFromDoclet(doclet), of a doclet that has meta.
getPathFromDoclet(doclet, sepr) ==
    IF doclet.metaPath # Undefined /\ doclet.metaPath # <<>>
       /\ doclet.metaPath # <<"n", "u", "l", "l">>
    THEN PathJoin(doclet.metaPath, doclet.metaFilename, sepr)
    ELSE doclet.metaFilename

\* sourceFiles[path], as an index into the list (0: no such key).
FileIndex(files, path) ==
    IF \E i \in 1..Len(files) : files[i].resolved = path
    THEN CHOOSE i \in 1..Len(files) : files[i].resolved = path
    ELSE 0

\* sourceFiles[sourcePath] = {resolved: sourcePath, shortened: null}
PutSourceFile(files, path) ==
    IF FileIndex(files, path) # 0
    THEN [files EXCEPT ![FileIndex(files, path)] = [resolved |-> path, shortened |-> Undefined]]
    ELSE Append(files, [resolved |-> path, shortened |-> Undefined])

\* ------------------------------------------- publish.js: examples, see ----
IsSpace(c) == c \in {" ", "\n", "\r", "\t"}

\* formatExample(example), of an example that is a string.
formatExample(example) ==
    LET str  == example.code
        n    == Len(str)
        lead == {i \in 0..n : \A k \in 1..i : IsSpace(str[k])}
        ws   == CHOOSE i \in lead : \A j \in lead : j <= i
        ends(j) == {k \in (j + 1)..(n - 1) :
                       /\ str[k] \in {"\n", "\r"}
                       /\ \A m \in (j + 1)..(k - 1) : IsSpace(str[m])}
        closes == {j \in (ws + 3)..n :
                       /\ str[j] \in {"</caption>", "</CAPTION>"}
                       /\ ends(j) # {}}
        opens == ws + 1 <= n /\ str[ws + 1] \in {"<caption>", "<CAPTION>"} /\ closes # {}
    IN  IF opens
        THEN LET j == CHOOSE x \in closes : \A y \in closes : x <= y
                 k == CHOOSE x \in ends(j) : \A y \in ends(j) : y <= x
             IN  [formatted |-> TRUE, caption |-> SubSeq(str, ws + 2, j - 1),
                  code |-> SubSeq(str, k + 1, n)]
        ELSE [formatted |-> TRUE, caption |-> <<>>, code |-> str]

\* /^(#.+)/.test(hash)
IsHash(hash) == Len(hash) >= 2 /\ hash[1] = "#" /\ hash[2] \notin {"\n", "\r"}

\* hashToLink(doclet, hash)
hashToLink(reg, doclet, hash) ==
    IF ~IsHash(hash) THEN hash
    ELSE LET url  == CreateLink(reg, doclet)
             at   == {i \in 1..(Len(url) - 1) : url[i] = "#"}
             cut  == IF at = {} THEN Len(url)
                     ELSE (CHOOSE i \in at : \A j \in at : i <= j) - 1
         IN  <<"<a href=\"">> \o SubSeq(url, 1, cut) \o hash \o <<"\">">> \o hash \o <<"</a>">>

\* ------------------------------------- publish.js: attachModuleSymbols ----
RequireOpen == <<"(", "r", "e", "q", "u", "i", "r", "e", "(", "\"">>
RequireClose == <<"\"", ")", ")">>

\* The copy of a symbol that is attached to a module: a class or function
\* gets its display name rewritten.
AttachedSymbol(symbol) ==
    IF symbol.kind = "class" \/ symbol.kind = "function"
    THEN [symbol EXCEPT !.name = StringReplace(symbol.name, ModulePrefix, RequireOpen)
                                  \o RequireClose]
    ELSE symbol

\* The step of modules.map without the exception made for classes.
AttachDescribedOnly(doclets, module) ==
    LET same == SelectSeqBy(doclets, {x \in Range(doclets) : x.longname = module.longname})
        kept == SelectSeqBy(same, {x \in Range(same) : Truthy(x.description)})
    IN  IF same # <<>>
        THEN [module EXCEPT !.hasModules = TRUE,
                            !.modules = [i \in 1..Len(kept) |-> AttachedSymbol(kept[i])]]
        ELSE module

\* One step of modules.map in attachModuleSymbols: the module doclet after it.
AttachToModule(doclets, module) ==
    LET same == SelectSeqBy(doclets, {x \in Range(doclets) : x.longname = module.longname})
        kept == SelectSeqBy(same, {x \in Range(same) : Truthy(x.description) \/ x.kind = "class"})
    IN  IF same # <<>>
        THEN [module EXCEPT !.hasModules = TRUE,
                            !.modules = [i \in 1..Len(kept) |-> AttachedSymbol(kept[i])]]
        ELSE module

\* helper.find(data, {longname: {left: 'module:'}})
ModuleScoped(docs) ==
    SelectSeqBy(docs, {x \in Range(docs) : OccursAt(x.longname, ModulePrefix, 1)})

\* The collection after the symbols of the module at place i are attached
\* without being copied first: the rewritten name lands on the shared record.
AttachWithoutCopy(docs, i) ==
    [k \in 1..Len(docs) |->
        IF k = i THEN AttachToModule(ModuleScoped(docs), docs[i])
        ELSE IF /\ docs[k].longname = docs[i].longname
                /\ (Truthy(docs[k].description) \/ docs[k].kind = "class")
        THEN AttachedSymbol(docs[k])
        ELSE docs[k]]

RECURSIVE attachModuleSymbolsWithoutCopy(_, _)
\* attachModuleSymbols with symbol = doop(symbol) left out.
attachModuleSymbolsWithoutCopy(docs, i) ==
    IF i > Len(docs) THEN docs
    ELSE IF docs[i].kind = "module"
    THEN attachModuleSymbolsWithoutCopy(AttachWithoutCopy(docs, i), i + 1)
    ELSE attachModuleSymbolsWithoutCopy(docs, i + 1)

RECURSIVE attachModuleSymbols(_, _)
\* attachModuleSymbols(doclets, members.modules), from the i-th doclet on; the
\* lookup table holds the doclets themselves, so a module attached later sees
\* what an earlier step has set.
attachModuleSymbols(docs, i) ==
    IF i > Len(docs) THEN docs
    ELSE IF docs[i].kind = "module"
    THEN attachModuleSymbols([docs EXCEPT ![i] = AttachToModule(ModuleScoped(docs), docs[i])], i + 1)
    ELSE attachModuleSymbols(docs, i + 1)

\* --------------------------------------------- helper.getMembers (host) ----
\* doclet.name.replace(/(^"|"$)/g, '')
StripQuotes(name) ==
    LET a == IF name # <<>> /\ Head(name) = "\"" THEN Tail(name) ELSE name
    IN  IF a # <<>> /\ a[Len(a)] = "\"" THEN SubSeq(a, 1, Len(a) - 1) ELSE a

\* The doclets of one kind, in collection order.
OfKind(docs, kind) == SelectSeqBy(docs, {x \in Range(docs) : x.kind = kind})

\* members.globals
Globals(docs) ==
    SelectSeqBy(docs, {x \in Range(docs) :
        /\ x.kind \in {"member", "function", "constant", "typedef"}
        /\ x.memberof = Undefined
        /\ ~IsModuleExports(x)})

\* The collection after getMembers: the names of externals lose their quotes.
AfterGetMembers(docs) ==
    [i \in 1..Len(docs) |->
        IF docs[i].kind = "external"
        THEN [docs[i] EXCEPT !.name = StripQuotes(@)] ELSE docs[i]]

\* --------------------------------------------- helper.prune, data.sort ----
Alphabet ==
    <<"\"", "#", ".", "/", ":", "A", "B", "C", "K", "M", "X", "a", "b", "c", "d",
      "e", "f", "g", "i", "l", "m", "n", "o", "r", "s", "t", "u", "x", "y", "z">>

CharRank(c) ==
    IF \E i \in 1..Len(Alphabet) : Alphabet[i] = c
    THEN CHOOSE i \in 1..Len(Alphabet) : Alphabet[i] = c ELSE 0

RECURSIVE StringLess(_, _)
\* a < b for strings.
StringLess(a, b) ==
    IF b = <<>> THEN FALSE
    ELSE IF a = <<>> THEN TRUE
    ELSE IF Head(a) = Head(b) THEN StringLess(Tail(a), Tail(b))
    ELSE CharRank(Head(a)) < CharRank(Head(b))

\* One doclet put into a list sorted by longname, behind its equals.
InsertSorted(sorted, d) ==
    LET before == {i \in 1..Len(sorted) : ~StringLess(d.longname, sorted[i].longname)}
        k == IF before = {} THEN 0 ELSE CHOOSE i \in before : \A j \in before : j <= i
    IN  SubSeq(sorted, 1, k) \o <<d>> \o SubSeq(sorted, k + 1, Len(sorted))

RECURSIVE SortByLongname(_)
\* data.sort('longname, version, since'), of doclets without version or since.
SortByLongname(docs) ==
    IF docs = <<>> THEN <<>>
    ELSE InsertSorted(SortByLongname(SubSeq(docs, 1, Len(docs) - 1)), docs[Len(docs)])

\* helper.prune(taffyData): undocumented doclets are dropped.
Prune(docs) == SelectSeqBy(docs, {x \in Range(docs) : ~x.undocumented})

\* -------------------------------------------------------------- state ----
VARIABLES
    pc,          \* the block of publish that runs next; "done", "threw" at the end
    run,         \* how many times the host has called publish
    env,         \* the host's side: path.sep, env.conf.templates.default, the
                 \* files the scanner finds, the source files that cannot be read
    tutorials,   \* the tutorial tree: [n |-> nodes below the root, parent |-> ...]
    data,        \* the record collection (taffyData, then the pruned, sorted data)
    sourceFiles, \* sourceFiles, in Object.keys order
    reg,         \* templateHelper's longnameToUrl and file-name table
    indexUrl, globalUrl,
    written,     \* every fs.writeFileSync of a rendered page, in order
    copied,      \* the static files copied into OUTDIR
    madeDirs,    \* the directories fs.mkPath has made
    log,         \* logger.error calls
    cursor,      \* the index of a forEach that is under way
    stack,       \* the frames of saveChildren
    thrown,      \* the exception that ended publish, or Undefined
    firstOutput  \* what the first call of publish left in OUTDIR

vars == <<pc, run, env, tutorials, data, sourceFiles, reg, indexUrl, globalUrl,
          written, copied, madeDirs, log, cursor, stack, thrown, firstOutput>>

\* An order of the blocks in which the source listings are rendered before
\* the doclets are decorated.
RenderBeforeEnrichOrder ==
    <<"start", "sources", "static", "userstatic", "gensrc", "enrich", "arrange",
      "home", "global", "members", "tutorials", "done">>

\* The blocks of exports.publish, in the order of its statements.
StatementOrder ==
    <<"start", "sources", "static", "userstatic", "enrich", "gensrc", "arrange",
      "home", "global", "members", "tutorials", "done">>

\* The block after block p.
After(p) ==
    LET i == CHOOSE k \in 1..Len(StatementOrder) : StatementOrder[k] = p
    IN  StatementOrder[i + 1]

\* path.normalize(env.opts.destination)
OUTDIR == Root(env.sep) \o <<env.sep, "o">>
\* path.join(normPath, 'static')
fromDir(sepr) == Root(sepr) \o <<sepr, "t", sepr, "s", "t", "a", "t", "i", "c">>
sIndex == <<"i", "n", "d", "e", "x">>
sHome == <<"H", "o", "m", "e">>
sGlobal == <<"G", "l", "o", "b", "a", "l">>

\* One written page: what was rendered (the docData handed to view.render)
\* and the file it went to.
Page(file, template, type, title, docs, node, resolveLinks) ==
    [file |-> file, template |-> template, type |-> type, title |-> title,
     docs |-> docs, node |-> node, resolveLinks |-> resolveLinks]

\* generate(view, type, title, docs, filename, resolveLinks): the page written.
generate(type, title, docs, filename, resolveLinks) ==
    Page(filename, "container.tmpl", type, title, docs, -1, resolveLinks)

\* The files of OUTDIR after the writes w: a later write of a file replaces it.
Outdir(w) ==
    {w[i] : i \in {k \in 1..Len(w) : \A j \in (k + 1)..Len(w) : w[j].file # w[k].file}}

\* ---------------------------------------------------- publish: 319-368 ----
\* prune and sort, claim the index and global file names.
Setup ==
    /\ pc = "start"
    /\ data' = SortByLongname(Prune(data))
    /\ LET reg1 == ClaimFilename(reg, sIndex)
           gUrl == UniqueFilename(reg1, GlobalName)
       IN  /\ indexUrl' = UniqueFilename(reg, sIndex)
           /\ globalUrl' = gUrl
           /\ reg' = RegisterLink(ClaimFilename(reg1, GlobalName), GlobalName, gUrl)
    /\ pc' = After("start")
    /\ UNCHANGED <<run, env, tutorials, sourceFiles, written, copied, madeDirs, log,
                   cursor, stack, thrown, firstOutput>>

\* ---------------------------------------------------- publish: 375-405 ----
\* doclet.examples = doclet.examples.map(formatExample)
FormatExamples(d) ==
    IF d.hasExamples
    THEN [d EXCEPT !.examples = [j \in 1..Len(@) |-> formatExample(@[j])]]
    ELSE d

\* doclet.see = doclet.see.map(item => hashToLink(doclet, item))
LinkSee(r, d) ==
    IF d.hasSee
    THEN [d EXCEPT !.see = [j \in 1..Len(@) |-> hashToLink(r, d, @[j])]]
    ELSE d

\* The registry after the see items of doclet d are linked: hashToLink
\* calls helper.createLink for an item that is a hash.
AfterLinkSee(r, d) ==
    IF d.hasSee /\ \E j \in 1..Len(d.see) : IsHash(d.see[j])
    THEN AfterCreateLink(r, d) ELSE r

\* An example that is no string has no match method: formatExample throws.
ExamplesThrow(d) ==
    d.hasExamples /\ \E j \in 1..Len(d.examples) : d.examples[j].formatted

\* The source file of doclet d is put on record.
CollectSource(files, d) ==
    IF d.hasMeta THEN PutSourceFile(files, getPathFromDoclet(d, env.sep)) ELSE files

\* The body of the first data().each, for doclet d (the i-th), which has
\* its attribs reset.
CollectDoclet(st, i, d) ==
    IF ExamplesThrow(d)
    THEN [st EXCEPT !.data[i] = d, !.thrown = <<"TypeError">>]
    ELSE [data |-> [st.data EXCEPT ![i] = LinkSee(st.reg, FormatExamples(d))],
          reg |-> AfterLinkSee(st.reg, d),
          files |-> CollectSource(st.files, d),
          thrown |-> st.thrown]

CollectOne(st, i) == CollectDoclet(st, i, [st.data[i] EXCEPT !.attribs = <<>>])

RECURSIVE CollectLoop(_, _)
CollectLoop(st, i) ==
    IF i > Len(st.data) \/ st.thrown # Undefined THEN st
    ELSE CollectLoop(CollectOne(st, i), i + 1)

\* The paths on record, sourceFilePaths.
PathsOf(files) == [i \in 1..Len(files) |-> files[i].resolved]

\* if (sourceFilePaths.length) sourceFiles = shortenPaths(...)
Shortened(files) ==
    IF Len(files) > 0
    THEN shortenPaths(files, CommonPrefix(PathsOf(files), env.sep))
    ELSE files

\* Build up source files.
BuildSourceFiles ==
    /\ pc = "sources"
    /\ \E st \in {CollectLoop([data |-> data, reg |-> reg, files |-> <<>>,
                               thrown |-> Undefined], 1)} :
           /\ data' = st.data
           /\ reg' = st.reg
           /\ thrown' = st.thrown
           /\ IF st.thrown # Undefined
              THEN /\ pc' = "threw"
                   /\ sourceFiles' = st.files
              ELSE /\ pc' = After("sources")
                   /\ sourceFiles' = Shortened(st.files)
    /\ UNCHANGED <<run, env, tutorials, indexUrl, globalUrl, written, copied, madeDirs,
                   log, cursor, stack, firstOutput>>

\* ---------------------------------------------------- publish: 412-444 ----
\* fs.toDir(path): the path itself when it is a directory.
ToDir(p) == IF HasExtname(p, env.sep) THEN Dirname(p, env.sep) ELSE p

\* Copy template static files to OUTDIR.
CopyTemplateStatic ==
    /\ pc = "static"
    /\ copied' = copied \cup
          {[from |-> env.themeFiles[i],
            to |-> StringReplace(env.themeFiles[i], fromDir(env.sep), OUTDIR)] :
              i \in 1..Len(env.themeFiles)}
    /\ madeDirs' = madeDirs \cup
          {ToDir(StringReplace(env.themeFiles[i], fromDir(env.sep), OUTDIR)) :
              i \in 1..Len(env.themeFiles)}
    /\ pc' = After("static")
    /\ UNCHANGED <<run, env, tutorials, data, sourceFiles, reg, indexUrl, globalUrl,
                   written, log, cursor, stack, thrown, firstOutput>>

\* The files the scanner finds, over all include paths, each with the
\* directory of its include path.
Discovered ==
    IF env.hasStaticFiles
    THEN Flatten([i \in 1..Len(env.staticFiles) |->
            [j \in 1..Len(env.staticFiles[i].files) |->
                [filename |-> env.staticFiles[i].files[j],
                 sourcePath |-> ToDir(env.staticFiles[i].path)]]])
    ELSE <<>>

\* destDir of the static-file loop.
DestDir(found) == ToDir(StringReplace(found.filename, found.sourcePath, OUTDIR))

\* Copy user-specified static files to OUTDIR, when nothing is found to copy.
CopyUserStaticNone ==
    /\ pc = "userstatic"
    /\ Discovered = <<>>
    /\ pc' = After("userstatic")
    /\ UNCHANGED <<run, env, tutorials, data, sourceFiles, reg, indexUrl, globalUrl,
                   written, copied, madeDirs, log, cursor, stack, thrown, firstOutput>>

\* Copy user-specified static files to OUTDIR: for the first file found the
\* directory is made, then fs.copyFileSync(fileName, destDir) names fileName,
\* which no scope declares: a ReferenceError ends publish.
CopyUserStaticThrows ==
    /\ pc = "userstatic"
    /\ Discovered # <<>>
    /\ madeDirs' = madeDirs \cup {DestDir(Discovered[1])}
    /\ thrown' = <<"ReferenceError">>
    /\ pc' = "threw"
    /\ UNCHANGED <<run, env, tutorials, data, sourceFiles, reg, indexUrl, globalUrl,
                   written, copied, log, cursor, stack, firstOutput>>

\* ---------------------------------------------------- publish: 451-494 ----
\* The part of a url behind its last '#'.
AfterHash(url) ==
    LET at == {i \in 1..Len(url) : url[i] = "#"}
    IN  SubSeq(url, (CHOOSE i \in at : \A j \in at : j <= i) + 1, Len(url))

\* helper.getAncestorLinks(data, doclet): a link to what the doclet is a
\* member of.
AncestorLinks(r, d) ==
    IF d.memberof # Undefined THEN <<Linkto(r, d.memberof, d.memberof)>> ELSE <<>>

\* The signature block of the second data().each (lines 475-480).
SignDoclet(r, d) ==
    IF needsSignature(d)
    THEN addAttribs(addSignatureReturns(r, addSignatureParams(d)))
    ELSE d

\* if (short) doclet.meta.shortpath = short
SetShortpath(d, short) ==
    IF Truthy(short) THEN [d EXCEPT !.shortpath = short] ELSE d

\* Set shortened path (lines 457-464).
WithShortpath(d) ==
    IF d.hasMeta
    THEN SetShortpath(d,
            sourceFiles[FileIndex(sourceFiles, getPathFromDoclet(d, env.sep))].shortened)
    ELSE d

\* Set doclet id (lines 467-473), from the url registered for the doclet.
SetId(d, url) ==
    [d EXCEPT !.id = IF IndexOf(url, <<"#">>) > 0 THEN AfterHash(url) ELSE d.name]

\* doclet.ancestors = helper.getAncestorLinks(data, doclet)
WithAncestors(r, d) == [d EXCEPT !.hasAncestors = TRUE, !.ancestors = AncestorLinks(r, d)]

\* The member and constant blocks (lines 484-493).
WithTypeSignature(r, d) ==
    IF d.kind = "member" THEN addAttribs(addSignatureTypes(r, d))
    ELSE IF d.kind = "constant"
    THEN [addAttribs(addSignatureTypes(r, d)) EXCEPT !.kind = "member"]
    ELSE d

\* The body of the second data().each, for doclet d with the registry r
\* in which its link is registered.
EnrichDoclet(r, d) ==
    WithTypeSignature(r,
        WithAncestors(r, SignDoclet(r, SetId(WithShortpath(d), UrlOf(r, d.longname)))))

\* The registry after the link of doclet d is created and registered.
LinkRegistered(r, d) == RegisterLink(AfterCreateLink(r, d), d.longname, CreateLink(r, d))

\* One round of the second data().each.
EnrichOne(st, i, r) ==
    [data |-> [st.data EXCEPT ![i] = EnrichDoclet(r, st.data[i])], reg |-> r]

RECURSIVE EnrichLoop(_, _)
EnrichLoop(st, i) ==
    IF i > Len(st.data) THEN st
    ELSE EnrichLoop(EnrichOne(st, i, LinkRegistered(st.reg, st.data[i])), i + 1)

\* Set doclet information.
SetDocletInformation ==
    /\ pc = "enrich"
    /\ \E st \in {EnrichLoop([data |-> data, reg |-> reg], 1)} :
           /\ data' = st.data
           /\ reg' = st.reg
    /\ pc' = After("enrich")
    /\ cursor' = 1
    /\ UNCHANGED <<run, env, tutorials, sourceFiles, indexUrl, globalUrl, written, copied,
                   madeDirs, log, stack, thrown, firstOutput>>

\* ---------------------------------------------------- publish: 501-503 ----
\* What fs.readFileSync yields for a readable source file.
Contents(path) == <<"<", "&">> \o path

\* view.outputSourceFiles is off: generateSourceFiles is not called.
SkipSourceFiles ==
    /\ pc = "gensrc"
    /\ ~env.outputSourceFiles
    /\ pc' = After("gensrc")
    /\ UNCHANGED <<run, env, tutorials, data, sourceFiles, reg, indexUrl, globalUrl,
                   written, copied, madeDirs, log, cursor, stack, thrown, firstOutput>>

\* What the try block of generateSourceFiles leaves in source: the listing,
\* or nothing when the read throws.
ReadSource(file) ==
    IF file.resolved \in env.unreadable
    THEN [kind |-> "undefined"]
    ELSE [kind |-> "source", code |-> Htmlsafe(Contents(file.resolved))]

\* A catch block that swallows the error without a word.
ReadErrorsSilenced(file) == <<>>

\* The catch block of generateSourceFiles: the logger.error call, if any.
ReadErrors(file) ==
    IF file.resolved \in env.unreadable
    THEN <<[file |-> file.resolved, message |-> <<"ENOENT">>]>>
    ELSE <<>>

\* One round of the forEach of generateSourceFiles.
GenerateSourceFile ==
    /\ pc = "gensrc"
    /\ env.outputSourceFiles
    /\ cursor <= Len(sourceFiles)
    /\ LET file == sourceFiles[cursor]
           sourceOutfile == UniqueFilename(reg, file.shortened)
       IN  /\ reg' = RegisterLink(ClaimFilename(reg, file.shortened), file.shortened,
                                  sourceOutfile)
           /\ log' = log \o ReadErrors(file)
           /\ written' = Append(written,
                 generate("Source", file.shortened, <<ReadSource(file)>>, sourceOutfile, FALSE))
    /\ cursor' = cursor + 1
    /\ UNCHANGED <<pc, run, env, tutorials, data, sourceFiles, indexUrl, globalUrl, copied,
                   madeDirs, stack, thrown, firstOutput>>

\* generateSourceFiles returns.
SourceFilesDone ==
    /\ pc = "gensrc"
    /\ env.outputSourceFiles
    /\ cursor > Len(sourceFiles)
    /\ pc' = After("gensrc")
    /\ UNCHANGED <<run, env, tutorials, data, sourceFiles, reg, indexUrl, globalUrl,
                   written, copied, madeDirs, log, cursor, stack, thrown, firstOutput>>

\* ---------------------------------------------------- publish: 506-534 ----
\* Arrange data: getMembers, then attachModuleSymbols.
ArrangeData ==
    /\ pc = "arrange"
    /\ data' = attachModuleSymbols(AfterGetMembers(data), 1)
    /\ pc' = After("arrange")
    /\ UNCHANGED <<run, env, tutorials, sourceFiles, reg, indexUrl, globalUrl, written,
                   copied, madeDirs, log, cursor, stack, thrown, firstOutput>>

sMainPage == <<"M", "a", "i", "n", " ", "P", "a", "g", "e">>

\* The docs of the index page: packages, the main page, files.
HomeDocs ==
    OfKind(data, "package")
    \o <<[kind |-> "mainpage", longname |-> sMainPage]>>
    \o OfKind(data, "file")

\* generate(view, '', 'Home', docs, indexUrl)
GenerateHome ==
    /\ pc = "home"
    /\ written' = Append(written, generate("", sHome, HomeDocs, indexUrl, TRUE))
    /\ pc' = After("home")
    /\ UNCHANGED <<run, env, tutorials, data, sourceFiles, reg, indexUrl, globalUrl,
                   copied, madeDirs, log, cursor, stack, thrown, firstOutput>>

\* if (members.globals.length) generate(view, '', 'Global', ...)
GenerateGlobal ==
    /\ pc = "global"
    /\ written' = IF Len(Globals(data)) > 0
                  THEN Append(written,
                          generate("", sGlobal, <<[kind |-> "globalobj"]>>, globalUrl, TRUE))
                  ELSE written
    /\ pc' = After("global")
    /\ cursor' = 1
    /\ UNCHANGED <<run, env, tutorials, data, sourceFiles, reg, indexUrl, globalUrl,
                   copied, madeDirs, log, stack, thrown, firstOutput>>

\* ---------------------------------------------------- publish: 536-550 ----
\* The page titles of the member kinds, in the order of the calls.
MemberPages ==
    <<[title |-> "Module", kind |-> "module"], [title |-> "Class", kind |-> "class"],
      [title |-> "Namespace", kind |-> "namespace"], [title |-> "Mixin", kind |-> "mixin"],
      [title |-> "External", kind |-> "external"],
      [title |-> "Interface", kind |-> "interface"]>>

\* generateMember writing one page for each of the members found.
generateMemberPerDoclet(title, kind, longname) ==
    LET ofKind  == OfKind(data, kind)
        members == SelectSeqBy(ofKind, {x \in Range(ofKind) : x.longname = longname})
    IN  [i \in 1..Len(members) |->
            generate(title, members[i].name, <<members[i]>>, UrlOf(reg, longname), TRUE)]

\* generateMember(view, title, data, longname): the pages it writes.
generateMember(title, kind, longname) ==
    LET ofKind  == OfKind(data, kind)
        members == SelectSeqBy(ofKind, {x \in Range(ofKind) : x.longname = longname})
    IN  IF Len(members) > 0
        THEN <<generate(title, members[1].name, members, UrlOf(reg, longname), TRUE)>>
        ELSE <<>>

\* One round of Object.keys(helper.longnameToUrl).forEach.
GenerateMembers ==
    /\ pc = "members"
    /\ cursor <= Len(reg.keys)
    /\ written' = written \o
          Flatten([k \in 1..Len(MemberPages) |->
              generateMember(MemberPages[k].title, MemberPages[k].kind, reg.keys[cursor])])
    /\ cursor' = cursor + 1
    /\ UNCHANGED <<pc, run, env, tutorials, data, sourceFiles, reg, indexUrl, globalUrl,
                   copied, madeDirs, log, stack, thrown, firstOutput>>

\* The forEach over the longnames is through; saveChildren(tutorials) is called.
MembersDone ==
    /\ pc = "members"
    /\ cursor > Len(reg.keys)
    /\ pc' = After("members")
    /\ stack' = <<[node |-> 0, next |-> 1]>>
    /\ UNCHANGED <<run, env, tutorials, data, sourceFiles, reg, indexUrl, globalUrl,
                   written, copied, madeDirs, log, cursor, thrown, firstOutput>>

\* ---------------------------------------------------- publish: 556-580 ----
\* node.children, in order: the root is node 0.
Children(node) ==
    SelectSeqBy([i \in 1..tutorials.n |-> i],
                {i \in 1..tutorials.n : tutorials.parent[i] = node})

\* helper.tutorialToUrl(child.name)
TutorialUrl(node) == <<"tutorial-", ToString(node)>> \o HtmlExt

\* generateTutorial(title, tutorial, filename): the page written.
generateTutorial(title, node, filename) ==
    Page(filename, "tutorial.tmpl", "Tutorial", title, <<>>, node, TRUE)

\* saveChildren that visits the children of the root only.
saveChildrenOfRoot(node) == IF node = 0 THEN Children(node) ELSE <<>>

\* The children to visit of a call of saveChildren(node).
saveChildren(node) == Children(node)

\* One round of the forEach of the innermost saveChildren: the page of the
\* child is generated and saveChildren(child) is entered.
SaveChild ==
    /\ pc = "tutorials"
    /\ stack # <<>>
    /\ LET top == stack[Len(stack)]
           kids == saveChildren(top.node)
       IN  /\ top.next <= Len(kids)
           /\ written' = Append(written,
                 generateTutorial(<<"Tutorial: ", ToString(kids[top.next])>>,
                                  kids[top.next], TutorialUrl(kids[top.next])))
           /\ stack' = Append([stack EXCEPT ![Len(stack)].next = @ + 1],
                              [node |-> kids[top.next], next |-> 1])
    /\ UNCHANGED <<pc, run, env, tutorials, data, sourceFiles, reg, indexUrl, globalUrl,
                   copied, madeDirs, log, cursor, thrown, firstOutput>>

\* The innermost saveChildren returns.
SaveChildrenReturn ==
    /\ pc = "tutorials"
    /\ stack # <<>>
    /\ stack[Len(stack)].next > Len(saveChildren(stack[Len(stack)].node))
    /\ stack' = SubSeq(stack, 1, Len(stack) - 1)
    /\ pc' = IF Len(stack) = 1 THEN After("tutorials") ELSE pc
    /\ UNCHANGED <<run, env, tutorials, data, sourceFiles, reg, indexUrl, globalUrl,
                   written, copied, madeDirs, log, cursor, thrown, firstOutput>>

\* ------------------------------------------------------------ the host ----
\* The host empties OUTDIR and calls publish again, with the same record
\* collection, options and tutorials, in the same process.
PublishAgain ==
    /\ pc = "done"
    /\ run = 1
    /\ run' = 2
    /\ firstOutput' = [pages |-> Outdir(written), static |-> copied]
    /\ written' = <<>>
    /\ copied' = {}
    /\ madeDirs' = {}
    /\ sourceFiles' = <<>>
    /\ cursor' = 1
    /\ pc' = "start"
    /\ UNCHANGED <<env, tutorials, data, reg, indexUrl, globalUrl, log, stack, thrown>>

Next ==
    \/ Setup
    \/ BuildSourceFiles
    \/ CopyTemplateStatic
    \/ CopyUserStaticNone
    \/ CopyUserStaticThrows
    \/ SetDocletInformation
    \/ SkipSourceFiles
    \/ GenerateSourceFile
    \/ SourceFilesDone
    \/ ArrangeData
    \/ GenerateHome
    \/ GenerateGlobal
    \/ GenerateMembers
    \/ MembersDone
    \/ SaveChild
    \/ SaveChildrenReturn
    \/ PublishAgain

\* ------------------------------------------------------------- inputs ----
\* The most names in the type of a typedef.
MaxTypeNames == 2

sString == <<"s", "t", "r", "i", "n", "g">>
sFoo == ModulePrefix \o <<"f", "o", "o">>
sBar == ModulePrefix \o <<"b", "a", "r">>
sText == <<"t", "e", "x", "t">>

\* Sequences over S of length at most n.
SeqsUpTo(S, n) == UNION {[1..k -> S] : k \in 0..n}

\* Those without a repeated element.
DistinctSeqsUpTo(S, n) ==
    {q \in SeqsUpTo(S, n) : \A i, j \in 1..Len(q) : q[i] = q[j] => i = j}

\* What the host runs publish with.
Scenario(docs, sepr, outputSourceFiles, hideReturnValues, unreadable) ==
    [data |-> docs, sep |-> sepr, outputSourceFiles |-> outputSourceFiles,
     hideReturnValues |-> hideReturnValues, hasStaticFiles |-> FALSE, staticFiles |-> <<>>,
     unreadable |-> unreadable, tutorials |-> [n |-> 0, parent |-> <<>>]]

\* Type names: one that is no function, and spellings of "function".
TypeNameSet ==
    {sString, sFunction, <<"F", "u", "N", "C", "T", "I", "O", "N">>, sFunction \o <<"s">>}

TypeOptions ==
    {[has |-> FALSE, names |-> <<>>]}
    \cup {[has |-> TRUE, names |-> q] : q \in SeqsUpTo(TypeNameSet, MaxTypeNames)}

ReturnOptions ==
    {[has |-> FALSE, items |-> <<>>],
     [has |-> TRUE, items |-> <<>>],
     [has |-> TRUE, items |-> <<ReturnItem(FALSE, <<>>, "unset")>>],
     [has |-> TRUE, items |-> <<ReturnItem(TRUE, <<sString>>, "unset")>>],
     [has |-> TRUE, items |-> <<ReturnItem(FALSE, <<>>, "true"),
                                ReturnItem(TRUE, <<sString, sFunction>>, "true")>>]}

SomeParams ==
    <<Param(<<"a">>, TRUE, "unset", FALSE), Param(<<"a", ".", "b">>, FALSE, "unset", FALSE),
      Param(<<"c">>, FALSE, "false", TRUE)>>

\* A global symbol Cb of some kind, with a type and return docs.
TypedDoclet(kind, t, r) ==
    [NewDoclet(1, kind, <<"C", "b">>, <<"C", "b">>) EXCEPT
        !.hasType = t.has, !.typeNames = t.names,
        !.hasReturns = r.has, !.returns = r.items]

SignatureDoclets ==
    {TypedDoclet("typedef", t, r) : t \in TypeOptions, r \in ReturnOptions}
    \cup {TypedDoclet(k, t, r) :
            k \in {"function", "class", "member", "constant", "namespace"},
            t \in {x \in TypeOptions : x.names \in {<<>>, <<sString>>}},
            r \in ReturnOptions}
    \cup {[TypedDoclet("function", [has |-> FALSE, names |-> <<>>], r) EXCEPT
              !.hasParams = TRUE, !.params = SomeParams, !.nullable = "true"] :
            r \in ReturnOptions}
    \cup {[TypedDoclet("function", [has |-> FALSE, names |-> <<>>], r) EXCEPT
              !.undocumented = TRUE] : r \in ReturnOptions}

SignatureScenarios ==
    {Scenario(<<d>>, "/", TRUE, hide, {}) : d \in SignatureDoclets, hide \in BOOLEAN}

\* Modules and the symbols they export.  The host gives a class or function
\* that is all a module exports the longname of the module, as its name too.
ModuleDoclets ==
    {[NewDoclet(11, "module", sFoo, <<"f", "o", "o">>) EXCEPT !.description = sText],
     NewDoclet(12, "class", sFoo, sFoo),
     [NewDoclet(13, "function", sFoo, sFoo) EXCEPT !.description = sText],
     [NewDoclet(14, "function", sFoo, sFoo) EXCEPT !.description = <<>>],
     NewDoclet(15, "module", sBar, <<"b", "a", "r">>),
     [NewDoclet(16, "function", sBar \o <<".", "x">>, <<"x">>) EXCEPT
         !.description = sText, !.memberof = sBar]}

ModuleScenarios ==
    {Scenario(q, "/", TRUE, FALSE, {}) : q \in DistinctSeqsUpTo(ModuleDoclets, MaxDoclets)}

\* Symbols that get pages of their own, and a global function.
PageDoclets ==
    {[NewDoclet(21, "class", <<"A">>, <<"A">>) EXCEPT
         !.hasExamples = TRUE,
         !.examples = <<RawExample(<<" ", "<caption>", "c", "</caption>", "\n", "x">>),
                        RawExample(<<"x", "\n", "y">>)>>,
         !.hasSee = TRUE, !.see = << <<"#", "m">>, <<"B">> >>],
     [NewDoclet(22, "class", <<"A">>, <<"A">>) EXCEPT !.description = sText],
     NewDoclet(23, "namespace", <<"A">>, <<"A">>),
     NewDoclet(24, "mixin", <<"M">>, <<"M">>),
     NewDoclet(25, "external", <<"X">>, <<"\"", "X", "\"">>),
     NewDoclet(26, "interface", <<"B">>, <<"B">>),
     [NewDoclet(27, "function", <<"g">>, <<"g">>) EXCEPT
         !.hasSee = TRUE, !.see = << <<"#", "g">> >>]}

PageScenarios ==
    {Scenario(q, "/", TRUE, FALSE, {}) : q \in DistinctSeqsUpTo(PageDoclets, MaxDoclets)}

\* Where the documented source files are: the directory, as segments below
\* the root, and the file name.
SourcePlaces ==
    {[uid |-> 31, dir |-> << <<"a">>, <<"b">> >>, file |-> <<"x", ".", "j", "s">>],
     [uid |-> 32, dir |-> << <<"a">>, <<"b">> >>, file |-> <<"x", ".", "j", "s">>],
     [uid |-> 33, dir |-> << <<"a">>, <<"b">>, <<"c">> >>, file |-> <<"y", ".", "j", "s">>],
     [uid |-> 34, dir |-> << <<"a">> >>, file |-> <<"z">>],
     [uid |-> 35, dir |-> << <<"d">> >>, file |-> <<"b", ".", "j", "s">>]}

\* A documented function in a source file.
SourceDoclet(place, sepr) ==
    [NewDoclet(place.uid, "function", <<"f", ToString(place.uid)>>, <<"f", ToString(place.uid)>>)
        EXCEPT !.hasMeta = TRUE,
               !.metaPath = Join(<<Root(sepr)>> \o place.dir, <<sepr>>),
               !.metaFilename = place.file]

\* No file, the file of the first doclet, or that of the last cannot be read.
UnreadableOptions(docs, sepr) ==
    {{}} \cup {{getPathFromDoclet(docs[i], sepr)} : i \in {1, Len(docs)} \cap DOMAIN docs}

SourceScenarios ==
    UNION {UNION {
        LET docs == [i \in 1..Len(q) |-> SourceDoclet(q[i], sepr)]
        IN  {Scenario(docs, sepr, TRUE, FALSE, u) : u \in UnreadableOptions(docs, sepr)}
            \cup {Scenario(docs, sepr, FALSE, FALSE, {})} :
        q \in DistinctSeqsUpTo(SourcePlaces, MaxDoclets)} : sepr \in {"/", "\\"}}

\* conf.default.staticFiles: include paths, each with the files the scanner
\* finds under it.
sCss == <<"a", ".", "c", "s", "s">>
sPng == <<"i", "/", "b", ".", "p", "n", "g">>
StaticOptions ==
    LET dirS == <<"/", "s">>
        dirR == <<"/", "r">>
        inS(f) == dirS \o <<"/">> \o f
    IN  {<<>>,
         <<[path |-> dirS, files |-> <<>>]>>,
         <<[path |-> dirS, files |-> <<inS(sCss)>>]>>,
         <<[path |-> dirS, files |-> <<inS(sCss), inS(sPng)>>]>>,
         <<[path |-> dirR, files |-> <<>>], [path |-> dirS, files |-> <<inS(sPng), inS(sCss)>>]>>}

StaticScenarios ==
    {[Scenario(q, "/", TRUE, FALSE, {}) EXCEPT !.hasStaticFiles = TRUE, !.staticFiles = o] :
        q \in DistinctSeqsUpTo(PageDoclets, 1), o \in StaticOptions}

\* Tutorial trees: every node has one parent, the root (0) or an earlier node.
TutorialTrees ==
    UNION {{[n |-> k, parent |-> f] :
              f \in {g \in [1..k -> 0..k] : \A i \in 1..k : g[i] < i}} : k \in 0..MaxTutorials}

TutorialScenarios ==
    {[Scenario(<<>>, "/", TRUE, FALSE, {}) EXCEPT !.tutorials = t] : t \in TutorialTrees}

Scenarios ==
    SignatureScenarios \cup ModuleScenarios \cup PageScenarios \cup SourceScenarios
    \cup StaticScenarios \cup TutorialScenarios

\* fs.ls(fromDir, 3): the static files of the theme.
ThemeFiles(sepr) == <<fromDir(sepr) \o <<sepr, "m", ".", "c", "s", "s">> >>

Init ==
    \E sc \in Scenarios :
        /\ pc = "start"
        /\ run = 1
        /\ env = [sep |-> sc.sep, outputSourceFiles |-> sc.outputSourceFiles,
                  hideReturnValues |-> sc.hideReturnValues,
                  hasStaticFiles |-> sc.hasStaticFiles, staticFiles |-> sc.staticFiles,
                  unreadable |-> sc.unreadable, themeFiles |-> ThemeFiles(sc.sep)]
        /\ tutorials = sc.tutorials
        /\ data = sc.data
        /\ sourceFiles = <<>>
        /\ reg = EmptyRegistry
        /\ indexUrl = Undefined
        /\ globalUrl = Undefined
        /\ written = <<>>
        /\ copied = {}
        /\ madeDirs = {}
        /\ log = <<>>
        /\ cursor = 1
        /\ stack = <<>>
        /\ thrown = Undefined
        /\ firstOutput = [pages |-> {}, static |-> {}]

Spec == Init /\ [][Next]_vars

\* saveChildren is synchronous: once it is called, the forEach of every frame
\* goes on to its next round or returns, without waiting on anything.
FairSpec == Spec /\ WF_vars(SaveChild \/ SaveChildrenReturn)

\* ========================================================= properties ====
\* The derived display fields of doclet d are computed.
Enriched(d) ==
    /\ d.attribs # Undefined
    /\ d.id # Undefined
    /\ d.hasAncestors
    /\ d.hasMeta => d.shortpath # Undefined
    /\ needsSignature(d) => d.signature # Undefined /\ d.attribs # <<>>
    /\ \A j \in 1..Len(d.examples) : d.examples[j].formatted

\* The derived display fields of doclet d.
DisplayFields(d) ==
    <<d.attribs, d.id, d.hasAncestors, d.ancestors, d.shortpath, d.signature,
      d.examples, d.see>>

\* C1: in every execution of publish, once a page has been rendered every
\* doclet of the pruned collection has its derived display fields (attribs,
\* id, ancestors, meta.shortpath when it has meta, signature when it needs
\* one, formatted examples), and from the first rendered page on no step
\* changes any of them, nor the see links.
C1_EnrichedBeforeRender ==
    /\ [](written # <<>> => \A i \in 1..Len(data) : Enriched(data[i]))
    /\ [][written # <<>> /\ written' # <<>> =>
             /\ Len(data') = Len(data)
             /\ \A i \in 1..Len(data) : DisplayFields(data'[i]) = DisplayFields(data[i])]_vars

\* C1 witness: the first page (a source listing) is rendered, and the
\* collection holds a doclet with location metadata that needs a signature.
C1_Witness ==
    /\ run = 1
    /\ Len(written) = 1
    /\ written[1].type = "Source"
    /\ \E i \in 1..Len(data) :
          data[i].hasMeta /\ needsSignature(data[i]) /\ data[i].signature # Undefined

\* C2: when publish has ended, every file the scanner found under an include
\* path of conf.default.staticFiles has been copied to the destination that
\* keeps its path relative to the include path.
C2_AllStaticFilesCopied ==
    pc \in {"done", "threw"} =>
        \A i \in 1..Len(Discovered) :
            \E c \in copied :
                /\ c.from = Discovered[i].filename
                /\ c.to = StringReplace(Discovered[i].filename, Discovered[i].sourcePath, OUTDIR)

\* The blocks behind block p.
Behind(p) ==
    LET i == CHOOSE k \in 1..Len(StatementOrder) : StatementOrder[k] = p
    IN  {StatementOrder[k] : k \in (i + 1)..Len(StatementOrder)}

\* The writes of the source listing of a file.
SourcePagesOf(file) ==
    {k \in 1..Len(written) : written[k].type = "Source" /\ written[k].title = file.shortened}

\* How many rounds of the forEach of generateSourceFiles are through.
ListingsGenerated ==
    IF ~env.outputSourceFiles THEN 0
    ELSE IF pc = "gensrc" THEN cursor - 1
    ELSE IF pc \in Behind("gensrc") THEN Len(sourceFiles)
    ELSE 0

\* C3: in generateSourceFiles no exception propagates; every source file the
\* loop has passed has exactly one listing page, readable or not; the page of
\* an unreadable file holds no contents and an error naming the file and the
\* underlying message is logged for it; the page of a readable file holds its
\* escaped contents and nothing is logged for it.
C3_ReadErrorIsNotFatal ==
    \A i \in 1..ListingsGenerated :
        LET file == sourceFiles[i]
        IN  /\ thrown = Undefined
            /\ Cardinality(SourcePagesOf(file)) = 1
            /\ \A k \in SourcePagesOf(file) :
                  IF file.resolved \in env.unreadable
                  THEN /\ written[k].docs = <<[kind |-> "undefined"]>>
                       /\ \E j \in 1..Len(log) :
                             log[j].file = file.resolved /\ log[j].message # <<>>
                  ELSE /\ written[k].docs =
                             <<[kind |-> "source", code |-> Htmlsafe(Contents(file.resolved))]>>
                       /\ \A j \in 1..Len(log) : log[j].file # file.resolved

\* C3 witness: generateSourceFiles has returned; the first of several source
\* files could not be read, and the listing of a later one is written.
C3_Witness ==
    /\ run = 1
    /\ pc = "arrange"
    /\ Len(sourceFiles) >= 2
    /\ sourceFiles[1].resolved \in env.unreadable
    /\ Len(log) = 1
    /\ \E k \in 1..Len(written) :
          /\ written[k].title = sourceFiles[Len(sourceFiles)].shortened
          /\ written[k].docs[1].kind = "source"

\* C4: publish run a second time on the same record collection, options and
\* tutorials, with OUTDIR emptied in between, ends without an exception and
\* leaves the same files with the same contents as the first run.
C4_SecondRunSameOutput ==
    (run = 2 /\ pc \in {"done", "threw"}) =>
        /\ thrown = Undefined
        /\ Outdir(written) = firstOutput.pages
        /\ copied = firstOutput.static

\* a and b are the same but for the case of their letters.
SameIgnoringCase(a, b) ==
    /\ Len(a) = Len(b)
    /\ \A i \in 1..Len(a) :
          \/ a[i] = b[i]
          \/ {a[i], b[i]} \in {{"f", "F"}, {"u", "U"}, {"n", "N"}, {"c", "C"},
                               {"t", "T"}, {"i", "I"}, {"o", "O"}, {"s", "S"}}

\* C5: once the doclets are decorated, every doclet of kind function or class
\* has a signature that starts with the signature span, and a typedef has a
\* signature exactly when its type is set and one of its type names is
\* "function" in some spelling of upper and lower case.
C5_SignatureWhenNeeded ==
    pc \in Behind("enrich") =>
        \A i \in 1..Len(data) :
            LET d == data[i]
            IN  /\ d.kind \in {"function", "class"} =>
                      /\ d.signature # Undefined
                      /\ Len(d.signature) >= 2
                      /\ d.signature[1] = "<span class=\"signature\">"
                /\ d.kind = "typedef" =>
                      (d.signature # Undefined <=>
                          /\ d.hasType
                          /\ \E j \in 1..Len(d.typeNames) :
                                SameIgnoringCase(d.typeNames[j], sFunction))

\* C5 witness: a decorated typedef has a signature although none of its type
\* names is spelled "function" in lower case.
C5_Witness ==
    /\ pc = "done"
    /\ \E i \in 1..Len(data) :
          /\ data[i].kind = "typedef"
          /\ data[i].signature # Undefined
          /\ Len(data[i].typeNames) = 2
          /\ \A j \in 1..Len(data[i].typeNames) : data[i].typeNames[j] # sFunction

\* The position of the doclet with the given uid in the collection.
PlaceOf(uid) == CHOOSE i \in 1..Len(data) : data[i].uid = uid

\* The name of a module, from its longname.
ModuleNameOf(longname) == SubSeq(longname, Len(ModulePrefix) + 1, Len(longname))

\* The doclets of the collection whose longname is not that of module m.
OthersThan(m) ==
    SelectSeqBy(ModuleScoped(data), {x \in Range(data) : x.longname # m.longname})

\* C6: after attachModuleSymbols every module doclet M (which is itself among
\* the doclets handed in, so some doclet has its longname) has a modules list
\* that holds exactly the doclets with the longname of M that have a
\* description or are classes, each once and in the order of the collection,
\* and every class or function in the list has a name that contains
\* require("<name of the module>"); handed only doclets with other longnames,
\* the step leaves the module as it is, without a modules list.
C6_ModuleSymbolsAttached ==
    pc \in Behind("arrange") =>
        \A i \in 1..Len(data) :
            data[i].kind = "module" =>
                LET att == data[i].modules
                IN  /\ data[i].hasModules
                    /\ \A k \in 1..Len(data) :
                          (/\ data[k].longname = data[i].longname
                           /\ (Truthy(data[k].description) \/ data[k].kind = "class"))
                          <=> \E j \in 1..Len(att) : att[j].uid = data[k].uid
                    /\ \A j, k \in 1..Len(att) :
                          j < k => PlaceOf(att[j].uid) < PlaceOf(att[k].uid)
                    /\ \A j \in 1..Len(att) :
                          att[j].kind \in {"class", "function"} =>
                              IndexOf(att[j].name,
                                      <<"r", "e", "q", "u", "i", "r", "e", "(", "\"">>
                                      \o ModuleNameOf(data[i].longname) \o <<"\"", ")">>) > 0
                    /\ ~AttachToModule(OthersThan(data[i]),
                                       [data[i] EXCEPT !.hasModules = FALSE]).hasModules

\* C6 witness: module:foo has a class without a description attached, under
\* the name (require("foo")), while a function of the same longname that has
\* an empty description is left out.
C6_Witness ==
    /\ pc = "done"
    /\ run = 1
    /\ \E i \in 1..Len(data) :
          /\ data[i].kind = "module"
          /\ \E j \in 1..Len(data[i].modules) :
                /\ data[i].modules[j].kind = "class"
                /\ data[i].modules[j].description = Undefined
                /\ data[i].modules[j].name = RequireOpen \o <<"f", "o", "o">> \o RequireClose
          /\ \E k \in 1..Len(data) :
                /\ data[k].longname = data[i].longname
                /\ data[k].kind = "function"
                /\ data[k].description = <<>>
                /\ \A j \in 1..Len(data[i].modules) : data[i].modules[j].uid # data[k].uid

\* s without its first n characters when pre is at its front, else s.
StripFront(s, pre) ==
    IF OccursAt(s, pre, 1) THEN SubSeq(s, Len(pre) + 1, Len(s)) ELSE s

\* C7: once the source paths are collected, the shortened form of every path
\* is the path without the common prefix of all the paths (as
\* path.commonPrefix reports it) at its front and with every backslash
\* turned into a forward slash (x.js and c/y.js for
\* /a/b/x.js and /a/b/c/y.js); once the doclets are decorated, every doclet
\* with meta has the shortened form of its own path as meta.shortpath.
C7_ShortenedPaths ==
    /\ pc \in Behind("sources") =>
          /\ LET prefix == CommonPrefix(PathsOf(sourceFiles), env.sep)
             IN  \A i \in 1..Len(sourceFiles) :
                     /\ sourceFiles[i].shortened =
                           ForwardSlashes(StripFront(sourceFiles[i].resolved, prefix))
                     /\ \A k \in 1..Len(sourceFiles[i].shortened) :
                           sourceFiles[i].shortened[k] # "\\"
          /\ \A i \in 1..Len(sourceFiles) :
                LET here == Root(env.sep) \o <<env.sep, "a", env.sep, "b", env.sep>>
                IN  {sourceFiles[k].resolved : k \in 1..Len(sourceFiles)} =
                        {here \o <<"x", ".", "j", "s">>,
                         here \o <<"c", env.sep, "y", ".", "j", "s">>}
                    => sourceFiles[i].shortened \in
                           {<<"x", ".", "j", "s">>, <<"c", "/", "y", ".", "j", "s">>}
    /\ pc \in Behind("enrich") =>
          \A i \in 1..Len(data) :
              data[i].hasMeta =>
                  \E k \in 1..Len(sourceFiles) :
                      /\ sourceFiles[k].resolved = getPathFromDoclet(data[i], env.sep)
                      /\ data[i].shortpath = sourceFiles[k].shortened

\* C7 witness: on a host whose separator is the backslash, the doclet of
\* C:\a\b\c\y.js has the shortpath c/y.js.
C7_Witness ==
    /\ pc = "done"
    /\ env.sep = "\\"
    /\ Len(sourceFiles) = 2
    /\ \E i \in 1..Len(data) :
          /\ data[i].metaFilename = <<"y", ".", "j", "s">>
          /\ data[i].shortpath = <<"c", "/", "y", ".", "j", "s">>

\* How many pages generate has written with the given type for the longname.
MemberPagesOf(type, longname) ==
    Cardinality({k \in 1..Len(written) :
        /\ written[k].template = "container.tmpl"
        /\ written[k].type = type
        /\ written[k].docs[1].longname = longname})

\* How many pages generate has written with no type and the given title.
PlainPagesOf(title) ==
    Cardinality({k \in 1..Len(written) :
        /\ written[k].template = "container.tmpl"
        /\ written[k].type = ""
        /\ written[k].title = title})

\* C8: when publish has run to its end, generate has been called once for the
\* home page, once for the global page if there are global members and not
\* at all if there are none, and for each of the kinds module, class,
\* namespace, mixin, external and interface once per longname that a member
\* of the kind has, and never for a longname no member of the kind has.
C8_OnePagePerLogicalPage ==
    pc = "done" =>
        /\ PlainPagesOf(sHome) = 1
        /\ PlainPagesOf(sGlobal) =
              (IF \E i \in 1..Len(data) :
                     /\ data[i].kind \in {"member", "function", "constant", "typedef"}
                     /\ data[i].memberof = Undefined
                     /\ ~IsModuleExports(data[i])
               THEN 1 ELSE 0)
        /\ \A m \in 1..Len(MemberPages) :
              /\ \A i \in 1..Len(data) :
                    data[i].kind = MemberPages[m].kind =>
                        MemberPagesOf(MemberPages[m].title, data[i].longname) = 1
              /\ \A k \in 1..Len(written) :
                    written[k].type = MemberPages[m].title =>
                        \E i \in 1..Len(data) :
                            /\ data[i].kind = MemberPages[m].kind
                            /\ data[i].longname = written[k].docs[1].longname

\* C8 witness: publish has ended with two classes and a namespace that share
\* the longname A: one Class page and one Namespace page are written for it.
C8_Witness ==
    /\ pc = "done"
    /\ run = 1
    /\ Cardinality({i \in 1..Len(data) : data[i].kind = "class" /\ data[i].longname = <<"A">>}) = 2
    /\ MemberPagesOf("Class", <<"A">>) = 1
    /\ MemberPagesOf("Namespace", <<"A">>) = 1
    /\ PlainPagesOf(sGlobal) = 0

\* The writes of the page of a tutorial node.
TutorialPagesOf(node) ==
    {k \in 1..Len(written) : written[k].template = "tutorial.tmpl" /\ written[k].node = node}

\* C9: saveChildren(tutorials), once called, returns; and when it has, the
\* page of every tutorial node below the root has been generated exactly
\* once, the page of a node before the pages of its children.
C9_TutorialsSavedOnce ==
    /\ (pc = "tutorials") ~> (pc = "done")
    /\ [](pc = "done" =>
            \A n \in 1..tutorials.n :
                /\ Cardinality(TutorialPagesOf(n)) = 1
                /\ tutorials.parent[n] # 0 =>
                      \A k \in TutorialPagesOf(n) :
                          \E j \in TutorialPagesOf(tutorials.parent[n]) : j < k)

\* C9 witness: publish has ended with a tutorial tree that is three deep.
C9_Witness ==
    /\ pc = "done"
    /\ tutorials.n = 3
    /\ tutorials.parent = <<0, 1, 2>>
    /\ Len(written) = 4

\* The doclet has return docs with at least one type name.
HasTypedReturns(d) ==
    /\ d.hasReturns
    /\ \E i \in 1..Len(d.returns) : d.returns[i].hasType /\ Len(d.returns[i].typeNames) > 0

\* The signature holds the arrow of the return types.
HasArrow(signature) == \E i \in 1..Len(signature) : signature[i] = " &rarr; "

\* C10: in the signature of every decorated doclet that needs one, the arrow
\* and the union of the return types are present exactly when the doclet has
\* return docs with at least one type name, whatever hideReturnValues is.
C10_ArrowIffTypedReturns ==
    pc \in Behind("enrich") =>
        \A i \in 1..Len(data) :
            data[i].kind \in {"function", "class", "typedef"} /\ data[i].signature # Undefined =>
                (HasArrow(data[i].signature) <=> HasTypedReturns(data[i]))

\* C10 with the option taken into account: the arrow is present exactly when the doclet has
\* return docs with at least one type name and hideReturnValues is not set.
C10_ArrowUnlessHidden ==
    pc \in Behind("enrich") =>
        \A i \in 1..Len(data) :
            data[i].kind \in {"function", "class", "typedef"} /\ data[i].signature # Undefined =>
                (HasArrow(data[i].signature) <=>
                    (HasTypedReturns(data[i]) /\ ~env.hideReturnValues))

\* C10 witness: hideReturnValues is set, and the signature of a decorated
\* function with typed return docs holds the arrow.
C10_Witness ==
    /\ pc = "done"
    /\ run = 1
    /\ env.hideReturnValues
    /\ \E i \in 1..Len(data) :
          /\ data[i].kind = "function"
          /\ HasTypedReturns(data[i])
          /\ HasArrow(data[i].signature)

\* Doclet d without its modules list.
WithoutModules(d) == [d EXCEPT !.hasModules = FALSE, !.modules = <<>>]

====
